---------------------------- MODULE Spec2Model ----------------------------
(***************************************************************************)
(* A model of src/src/components/JsonToDartConverter.tsx: the React        *)
(* component's state (jsonInput, className, dartOutput, isConverting), its *)
(* handlers (convertJsonToDart, copyToClipboard, clearAll and the two      *)
(* onChange setters) and the generator generateDartClass with its four     *)
(* inner functions.                                                        *)
(*                                                                         *)
(* Representation.                                                         *)
(*  - A JavaScript string is a sequence of one-character strings, so that  *)
(*    charAt, slice and replace(/s$/, '') are computed, not assumed.       *)
(*  - The JSON input text is a sequence of tokens; JSON_parse is a         *)
(*    recursive-descent parser over it.                                    *)
(*  - A parsed JSON value is a record tagged by t: "null", "bool", "num",  *)
(*    "str", "arr" (items) or "obj" (entries, in Object.entries order).    *)
(*  - The generated Dart text is a sequence of lines, one record per       *)
(*    template literal of the source; the record keeps the interpolated    *)
(*    parts (class name, field type, key) as strings.                      *)
(*  - A thrown exception is a result record with threw = TRUE.             *)
(***************************************************************************)
EXTENDS Integers, Sequences, FiniteSets, TLC

VARIABLES jsonInput, className, dartOutput, isConverting,
          toast, toastCount, copyPending

vars == <<jsonInput, className, dartOutput, isConverting,
          toast, toastCount, copyPending>>

---------------------------------------------------------------------------
(* Bounds of the model.                                                    *)

\* Largest number of nodes (scalars, arrays, objects) of a generated JSON document.
MaxNodes == 4

\* Largest number of toast() calls followed in one behaviour.
MaxToasts == 3

\* Largest number of clipboard writes in flight at once.
MaxPending == 1

---------------------------------------------------------------------------
(* JavaScript strings.                                                     *)

LowerCase == <<"a","b","c","d","e","f","g","h","i","j","k","l","m",
               "n","o","p","q","r","s","t","u","v","w","x","y","z">>
UpperCase == <<"A","B","C","D","E","F","G","H","I","J","K","L","M",
               "N","O","P","Q","R","S","T","U","V","W","X","Y","Z">>

\* String.prototype.toUpperCase on one character.
toUpperCase(c) ==
    IF \E i \in 1..Len(LowerCase) : LowerCase[i] = c
    THEN UpperCase[CHOOSE i \in 1..Len(LowerCase) : LowerCase[i] = c]
    ELSE c

\* str.charAt(0).toUpperCase() + str.slice(1); charAt(0) of '' is ''.
capitalizeFirst(str) ==
    IF str = <<>> THEN <<>> ELSE <<toUpperCase(str[1])>> \o Tail(str)

\* key.replace(/s$/, ''): one trailing 's' is removed, when there is one.
replaceTrailingS(key) ==
    IF Len(key) > 0 /\ key[Len(key)] = "s"
    THEN SubSeq(key, 1, Len(key) - 1)
    ELSE key

Digits == <<"0","1","2","3","4","5","6","7","8","9">>

\* String(n) for a natural number n: the decimal digits.
RECURSIVE NatToString(_)
NatToString(n) ==
    IF n < 10 THEN <<Digits[n + 1]>>
    ELSE NatToString(n \div 10) \o <<Digits[(n % 10) + 1]>>

\* The literal strings of the templates.
S_dynamic == <<"d","y","n","a","m","i","c">>
S_String  == <<"S","t","r","i","n","g">>
S_int     == <<"i","n","t">>
S_double  == <<"d","o","u","b","l","e">>
S_bool    == <<"b","o","o","l">>
S_ListOpen  == <<"L","i","s","t","<">>
S_ListClose == <<">">>
S_MyModel == <<"M","y","M","o","d","e","l">>

---------------------------------------------------------------------------
(* Parsed JSON values, as JSON.parse returns them.                         *)

JNull        == [t |-> "null"]
JBool(b)     == [t |-> "bool", b |-> b]
\* A number ip + frac/10; Number.isInteger is frac = 0.
JNum(ip, fr) == [t |-> "num", ip |-> ip, frac |-> fr]
JStr(s)      == [t |-> "str", s |-> s]
JArr(items)  == [t |-> "arr", items |-> items]
\* entries: a sequence of [key, value], keys distinct, in Object.entries order.
JObj(es)     == [t |-> "obj", entries |-> es]

\* typeof v
typeof(v) ==
    CASE v.t = "str"  -> "string"
      [] v.t = "num"  -> "number"
      [] v.t = "bool" -> "boolean"
      [] OTHER        -> "object"

isArray(v) == v.t = "arr"

isInteger(v) == v.t = "num" /\ v.frac = 0

\* Object.entries(v): throws a TypeError on null; the own enumerable string-keyed
\* properties otherwise (none for a number or a boolean, the indexed characters
\* of a string, the indexed elements of an array).
ObjectEntries(v) ==
    CASE v.t = "null" -> [threw |-> TRUE, entries |-> <<>>]
      [] v.t = "obj"  -> [threw |-> FALSE, entries |-> v.entries]
      [] v.t = "arr"  ->
            [threw |-> FALSE,
             entries |-> [i \in 1..Len(v.items) |->
                             [key |-> NatToString(i - 1), value |-> v.items[i]]]]
      [] v.t = "str"  ->
            [threw |-> FALSE,
             entries |-> [i \in 1..Len(v.s) |->
                             [key |-> NatToString(i - 1), value |-> JStr(<<v.s[i]>>)]]]
      [] OTHER        -> [threw |-> FALSE, entries |-> <<>>]

---------------------------------------------------------------------------
(* generateDartClass and its inner functions.                              *)

\* The lines of the generated text.
ClassLine(name, path) == [k |-> "class", name |-> name, path |-> path]
FieldLine(type, key)  == [k |-> "field", type |-> type, key |-> key]
BlankLine             == [k |-> "blank"]
CtorOpenLine(name)    == [k |-> "ctorOpen", name |-> name]
ThisLine(key)         == [k |-> "this", key |-> key]
CtorCloseLine         == [k |-> "ctorClose"]
FactoryLine(name)     == [k |-> "factory", name |-> name]
ReturnLine(name)      == [k |-> "return", name |-> name]
FromLine(form, key, cls) == [k |-> "from", form |-> form, key |-> key, cls |-> cls]
FromCloseLine         == [k |-> "fromClose"]
ToJsonOpenLine        == [k |-> "toJsonOpen"]
ToLine(form, key)     == [k |-> "to", form |-> form, key |-> key]
ToJsonCloseLine       == [k |-> "toJsonClose"]
EndLine               == [k |-> "end"]

Threw     == [threw |-> TRUE, text |-> <<>>]
Returned(text) == [threw |-> FALSE, text |-> text]

RECURSIVE generateFieldType(_, _)
generateFieldType(value, key) ==
    IF value.t = "null" THEN S_dynamic
    ELSE IF typeof(value) = "string" THEN S_String
    ELSE IF typeof(value) = "number"
         THEN (IF isInteger(value) THEN S_int ELSE S_double)
    ELSE IF typeof(value) = "boolean" THEN S_bool
    ELSE IF isArray(value)
         THEN IF Len(value.items) = 0 THEN S_ListOpen \o S_dynamic \o S_ListClose
              ELSE LET firstItem == value.items[1] IN
                   IF typeof(firstItem) = "object" /\ firstItem.t # "null"
                   THEN LET itemClassName == capitalizeFirst(replaceTrailingS(key)) IN
                        S_ListOpen \o itemClassName \o S_ListClose
                   ELSE S_ListOpen \o generateFieldType(firstItem, key) \o S_ListClose
    ELSE IF typeof(value) = "object" THEN capitalizeFirst(key)
    ELSE S_dynamic

\* The two conditions that generateNestedClasses and generateClassContent share.
IsPlainObject(value) ==
    typeof(value) = "object" /\ value.t # "null" /\ ~isArray(value)

IsArrayWithObjectFirst(value) ==
    isArray(value) /\ Len(value.items) > 0 /\ typeof(value.items[1]) = "object"

\* Lines 105-108: one field declaration per entry.
FieldDeclarations(entries) ==
    [i \in 1..Len(entries) |->
        FieldLine(generateFieldType(entries[i].value, entries[i].key), entries[i].key)]

\* Lines 113-118: the constructor, one parameter per Object.keys(obj).
ConstructorLines(entries, name) ==
    <<CtorOpenLine(name)>>
    \o [i \in 1..Len(entries) |-> ThisLine(entries[i].key)]
    \o <<CtorCloseLine>>

\* FromJsonEntry with the item class named after the key as it is, the trailing
\* 's' kept.
FromJsonEntry_PluralName(key, value) ==
    IF IsPlainObject(value)
    THEN FromLine("object", key, capitalizeFirst(key))
    ELSE IF IsArrayWithObjectFirst(value)
    THEN FromLine("list", key, capitalizeFirst(key))
    ELSE FromLine("raw", key, <<>>)

\* Lines 124-132: the fromJson entry of one field.
FromJsonEntry(key, value) ==
    IF IsPlainObject(value)
    THEN LET nestedClassName == capitalizeFirst(key) IN
         FromLine("object", key, nestedClassName)
    ELSE IF IsArrayWithObjectFirst(value)
    THEN LET itemClassName == capitalizeFirst(replaceTrailingS(key)) IN
         FromLine("list", key, itemClassName)
    ELSE FromLine("raw", key, <<>>)

\* Lines 121-135: the fromJson factory.
FromJsonLines(entries, name) ==
    <<FactoryLine(name), ReturnLine(name)>>
    \o [i \in 1..Len(entries) |-> FromJsonEntry(entries[i].key, entries[i].value)]
    \o <<FromCloseLine>>

\* Lines 141-147: the toJson entry of one field.
ToJsonEntry(key, value) ==
    IF IsPlainObject(value) THEN ToLine("object", key)
    ELSE IF IsArrayWithObjectFirst(value) THEN ToLine("list", key)
    ELSE ToLine("raw", key)

\* ToJsonLines with the entries in reverse order.
ToJsonLines_Reversed(entries) ==
    <<ToJsonOpenLine>>
    \o [i \in 1..Len(entries) |->
           ToJsonEntry(entries[Len(entries) + 1 - i].key,
                       entries[Len(entries) + 1 - i].value)]
    \o <<ToJsonCloseLine>>

\* Lines 138-150: the toJson method.
ToJsonLines(entries) ==
    <<ToJsonOpenLine>>
    \o [i \in 1..Len(entries) |-> ToJsonEntry(entries[i].key, entries[i].value)]
    \o <<ToJsonCloseLine>>

generateClassContent(obj, name) ==
    LET oe == ObjectEntries(obj) IN
    IF oe.threw THEN Threw
    ELSE Returned(FieldDeclarations(oe.entries)
                  \o <<BlankLine>>
                  \o ConstructorLines(oe.entries, name)
                  \o FromJsonLines(oe.entries, name)
                  \o ToJsonLines(oe.entries))

\* `\nclass ${name} {\n` + generateClassContent(obj, name) + '}\n'.  The class
\* line also records path, the keys leading from the root to obj: a ghost of the
\* model, not part of the text, that lets a property name the JSON value a class
\* definition was built from.
ClassDefinition(obj, name, path) ==
    LET body == generateClassContent(obj, name) IN
    IF body.threw THEN Threw
    ELSE Returned(<<ClassLine(name, path)>> \o body.text \o <<EndLine>>)

\* generateNestedClasses(obj, className); path is the ghost described above.
\* (The source never reads its className parameter.)
RECURSIVE generateNestedClasses(_, _, _)
RECURSIVE NestedClassesFrom(_, _, _)
RECURSIVE NestedClassOf(_, _, _)

\* NestedClassOf with the class of the nested value before its descendants.
NestedClassOf_ParentFirst(obj, name, path) ==
    LET below == generateNestedClasses(obj, name, path) IN
    IF below.threw THEN Threw
    ELSE LET def == ClassDefinition(obj, name, path) IN
         IF def.threw THEN Threw
         ELSE Returned(def.text \o below.text)

\* Lines 84-88 and 90-94: the descendants of the nested value, then its class.
NestedClassOf(obj, name, path) ==
    LET below == generateNestedClasses(obj, name, path) IN
    IF below.threw THEN Threw
    ELSE LET def == ClassDefinition(obj, name, path) IN
         IF def.threw THEN Threw
         ELSE Returned(below.text \o def.text)

\* Lines 82-96: the loop over Object.entries(obj), from entry i on.
NestedClassesFrom(entries, i, path) ==
    IF i > Len(entries) THEN Returned(<<>>)
    ELSE LET key   == entries[i].key
             value == entries[i].value
             this  == IF IsPlainObject(value)
                      THEN NestedClassOf(value, capitalizeFirst(key), path \o <<key>>)
                      ELSE IF IsArrayWithObjectFirst(value)
                      THEN NestedClassOf(value.items[1],
                                         capitalizeFirst(replaceTrailingS(key)),
                                         path \o <<key>>)
                      ELSE Returned(<<>>)
         IN IF this.threw THEN Threw
            ELSE LET rest == NestedClassesFrom(entries, i + 1, path) IN
                 IF rest.threw THEN Threw
                 ELSE Returned(this.text \o rest.text)

generateNestedClasses(obj, name, path) ==
    LET oe == ObjectEntries(obj) IN
    IF oe.threw THEN Threw
    ELSE NestedClassesFrom(oe.entries, 1, path)

\* generateDartClass with the root class before the nested classes.
generateDartClass_RootFirst(json, name) ==
    LET nestedClasses == generateNestedClasses(json, name, <<>>) IN
    IF nestedClasses.threw THEN Threw
    ELSE LET root == ClassDefinition(json, name, <<>>) IN
         IF root.threw THEN Threw
         ELSE Returned(root.text \o nestedClasses.text)

\* Lines 155-162.
generateDartClass(json, name) ==
    LET nestedClasses == generateNestedClasses(json, name, <<>>) IN
    IF nestedClasses.threw THEN Threw
    ELSE LET root == ClassDefinition(json, name, <<>>) IN
         IF root.threw THEN Threw
         ELSE Returned(nestedClasses.text \o root.text)

---------------------------------------------------------------------------
(* The input text and JSON.parse.                                          *)

\* The tokens of a JSON text.  Punctuation and the three literal names carry
\* their spelling in tk; "ws" is a run of white space and "word" any other bare
\* word, which no JSON text may contain.
Tok(x)       == [tk |-> x]
TStr(s)      == [tk |-> "str", s |-> s]
TNum(ip, fr) == [tk |-> "num", ip |-> ip, frac |-> fr]
WS           == Tok("ws")

\* String.prototype.trim: white space is removed from both ends.
RECURSIVE trimStart(_)
trimStart(text) ==
    IF text # <<>> /\ Head(text) = WS THEN trimStart(Tail(text)) ELSE text

RECURSIVE trimEnd(_)
trimEnd(text) ==
    IF text # <<>> /\ text[Len(text)] = WS
    THEN trimEnd(SubSeq(text, 1, Len(text) - 1))
    ELSE text

trim(text) == trimEnd(trimStart(text))

\* A canonical array index: decimal digits without a leading zero.
IsIndexKey(key) ==
    /\ Len(key) > 0
    /\ \A i \in 1..Len(key) : \E d \in 1..10 : Digits[d] = key[i]
    /\ (Len(key) > 1 => key[1] # "0")

DigitValue(c) == (CHOOSE d \in 1..10 : Digits[d] = c) - 1

RECURSIVE IndexValue(_)
IndexValue(key) ==
    IF key = <<>> THEN 0
    ELSE 10 * IndexValue(SubSeq(key, 1, Len(key) - 1)) + DigitValue(key[Len(key)])

\* The property order of a JavaScript object after obj[key] = value: a key that
\* is already there keeps its place and takes the new value; a new index key goes
\* among the index keys, in ascending order, before every other key; any other
\* new key goes last.
ObjPut(entries, key, value) ==
    IF \E i \in 1..Len(entries) : entries[i].key = key
    THEN [i \in 1..Len(entries) |->
             IF entries[i].key = key THEN [key |-> key, value |-> value]
             ELSE entries[i]]
    ELSE IF IsIndexKey(key)
    THEN LET before == {i \in 1..Len(entries) :
                           /\ IsIndexKey(entries[i].key)
                           /\ IndexValue(entries[i].key) < IndexValue(key)}
             n == Cardinality(before)
         IN SubSeq(entries, 1, n) \o <<[key |-> key, value |-> value]>>
            \o SubSeq(entries, n + 1, Len(entries))
    ELSE Append(entries, [key |-> key, value |-> value])

RECURSIVE SkipWs(_, _)
SkipWs(toks, i) ==
    IF i <= Len(toks) /\ toks[i] = WS THEN SkipWs(toks, i + 1) ELSE i

ParseFail == [ok |-> FALSE, value |-> JNull, next |-> 0]
Parsed(v, next) == [ok |-> TRUE, value |-> v, next |-> next]

TokAt(toks, i) == IF i <= Len(toks) THEN toks[i].tk ELSE "eof"

\* value, elements and members of the JSON grammar; next is the first token
\* after the parsed part and the white space that follows it.
RECURSIVE ParseValue(_, _)
RECURSIVE ParseElements(_, _, _)
RECURSIVE ParseMembers(_, _, _)

ParseValue(toks, i0) ==
    LET i == SkipWs(toks, i0)
        tk == TokAt(toks, i)
    IN CASE tk = "null"  -> Parsed(JNull, SkipWs(toks, i + 1))
         [] tk = "true"  -> Parsed(JBool(TRUE), SkipWs(toks, i + 1))
         [] tk = "false" -> Parsed(JBool(FALSE), SkipWs(toks, i + 1))
         [] tk = "str"   -> Parsed(JStr(toks[i].s), SkipWs(toks, i + 1))
         [] tk = "num"   -> Parsed(JNum(toks[i].ip, toks[i].frac), SkipWs(toks, i + 1))
         [] tk = "["     ->
               IF TokAt(toks, SkipWs(toks, i + 1)) = "]"
               THEN Parsed(JArr(<<>>), SkipWs(toks, SkipWs(toks, i + 1) + 1))
               ELSE ParseElements(toks, i + 1, <<>>)
         [] tk = "{"     ->
               IF TokAt(toks, SkipWs(toks, i + 1)) = "}"
               THEN Parsed(JObj(<<>>), SkipWs(toks, SkipWs(toks, i + 1) + 1))
               ELSE ParseMembers(toks, i + 1, <<>>)
         [] OTHER        -> ParseFail

ParseElements(toks, i, acc) ==
    LET r == ParseValue(toks, i) IN
    IF ~r.ok THEN ParseFail
    ELSE CASE TokAt(toks, r.next) = "," ->
                 ParseElements(toks, r.next + 1, Append(acc, r.value))
           [] TokAt(toks, r.next) = "]" ->
                 Parsed(JArr(Append(acc, r.value)), SkipWs(toks, r.next + 1))
           [] OTHER -> ParseFail

ParseMembers(toks, i, acc) ==
    LET j == SkipWs(toks, i)
        c == SkipWs(toks, j + 1)
    IN IF TokAt(toks, j) # "str" \/ TokAt(toks, c) # ":" THEN ParseFail
       ELSE LET r == ParseValue(toks, c + 1) IN
            IF ~r.ok THEN ParseFail
            ELSE LET acc2 == ObjPut(acc, toks[j].s, r.value) IN
                 CASE TokAt(toks, r.next) = "," -> ParseMembers(toks, r.next + 1, acc2)
                   [] TokAt(toks, r.next) = "}" ->
                         Parsed(JObj(acc2), SkipWs(toks, r.next + 1))
                   [] OTHER -> ParseFail

\* JSON.parse(text): the value, or a SyntaxError.
JSON_parse(text) ==
    LET r == ParseValue(text, 1) IN
    IF r.ok /\ r.next = Len(text) + 1
    THEN [threw |-> FALSE, value |-> r.value]
    ELSE [threw |-> TRUE, value |-> JNull]

---------------------------------------------------------------------------
(* The component: its state and handlers.                                  *)

\* The argument of a toast() call.
Toast(title, description, variant) ==
    [title |-> title, description |-> description, variant |-> variant]

NoToast == Toast("", "", "")
ToastEnterJson  == Toast("Error", "Please enter a valid JSON string", "destructive")
ToastSuccess    == Toast("Success", "JSON converted to Dart model successfully!", "default")
ToastInvalid    == Toast("Error", "Invalid JSON format. Please check your input.", "destructive")
ToastNothing    == Toast("Error", "No Dart code to copy", "destructive")
ToastCopied     == Toast("Copied!", "Dart code copied to clipboard", "default")
ToastCopyFailed == Toast("Error", "Failed to copy to clipboard", "destructive")

\* toast(t): the last toast shown, and the number of calls so far.
ShowToast(t) ==
    /\ toastCount < MaxToasts
    /\ toast' = t
    /\ toastCount' = toastCount + 1

\* Lines 32-34, the try block up to setDartOutput: the text to store, or a throw
\* (of JSON.parse or of generateDartClass).
TryConvert(text, name) ==
    LET parsedJson == JSON_parse(text) IN
    IF parsedJson.threw THEN Threw
    ELSE generateDartClass(parsedJson.value, name)

\* convertJsonToDart with the output cleared when the try block throws.
convertJsonToDart_ClearsOnError ==
    IF trim(jsonInput) = <<>>
    THEN /\ ShowToast(ToastEnterJson)
         /\ UNCHANGED <<jsonInput, className, dartOutput, isConverting, copyPending>>
    ELSE LET dartClass == TryConvert(jsonInput, className) IN
         /\ dartOutput' = IF dartClass.threw THEN <<>> ELSE dartClass.text
         /\ ShowToast(IF dartClass.threw THEN ToastInvalid ELSE ToastSuccess)
         /\ isConverting' = FALSE
         /\ UNCHANGED <<jsonInput, className, copyPending>>

\* convertJsonToDart with setIsConverting(false) as the last statement of the
\* try block, not in a finally block: a throw skips it.
convertJsonToDart_NoFinally ==
    IF trim(jsonInput) = <<>>
    THEN /\ ShowToast(ToastEnterJson)
         /\ UNCHANGED <<jsonInput, className, dartOutput, isConverting, copyPending>>
    ELSE LET dartClass == TryConvert(jsonInput, className) IN
         /\ dartOutput' = IF dartClass.threw THEN dartOutput ELSE dartClass.text
         /\ ShowToast(IF dartClass.threw THEN ToastInvalid ELSE ToastSuccess)
         /\ isConverting' = dartClass.threw
         /\ UNCHANGED <<jsonInput, className, copyPending>>

\* Lines 19-50.  The handler runs to completion: setIsConverting(true) of line
\* 29 is overwritten by the finally block's setIsConverting(false) before React
\* renders.
convertJsonToDart ==
    IF trim(jsonInput) = <<>>
    THEN /\ ShowToast(ToastEnterJson)
         /\ UNCHANGED <<jsonInput, className, dartOutput, isConverting, copyPending>>
    ELSE LET dartClass == TryConvert(jsonInput, className) IN
         /\ dartOutput' = IF dartClass.threw THEN dartOutput ELSE dartClass.text
         /\ ShowToast(IF dartClass.threw THEN ToastInvalid ELSE ToastSuccess)
         /\ isConverting' = FALSE
         /\ UNCHANGED <<jsonInput, className, copyPending>>

\* Lines 165-177: nothing to copy, or the clipboard write is started.
copyToClipboard ==
    IF dartOutput = <<>>
    THEN /\ ShowToast(ToastNothing)
         /\ UNCHANGED <<jsonInput, className, dartOutput, isConverting, copyPending>>
    ELSE /\ copyPending < MaxPending
         /\ copyPending' = copyPending + 1
         /\ UNCHANGED <<jsonInput, className, dartOutput, isConverting, toast, toastCount>>

\* Lines 177-189: the awaited clipboard write resolves or rejects.
clipboardSettled(resolved) ==
    /\ copyPending > 0
    /\ copyPending' = copyPending - 1
    /\ ShowToast(IF resolved THEN ToastCopied ELSE ToastCopyFailed)
    /\ UNCHANGED <<jsonInput, className, dartOutput, isConverting>>

\* Lines 225-227: the Convert button, disabled while isConverting.
ConvertButton == ~isConverting /\ convertJsonToDart

\* Lines 276-280: the Copy button, disabled while dartOutput is empty.
CopyButton == dartOutput # <<>> /\ copyToClipboard

\* Lines 191-195.
clearAll ==
    /\ jsonInput' = <<>>
    /\ dartOutput' = <<>>
    /\ className' = S_MyModel
    /\ UNCHANGED <<isConverting, toast, toastCount, copyPending>>

\* Line 261: onChange of the JSON text area.
setJsonInput(text) ==
    /\ jsonInput' = text
    /\ UNCHANGED <<className, dartOutput, isConverting, toast, toastCount, copyPending>>

\* Line 219: onChange of the class name input.
setClassName(name) ==
    /\ className' = name
    /\ UNCHANGED <<jsonInput, dartOutput, isConverting, toast, toastCount, copyPending>>

---------------------------------------------------------------------------
(* Inputs.                                                                 *)

\* JSON.stringify(v): the text of a value, without white space.
RECURSIVE JSON_stringify(_)
RECURSIVE StringifyItems(_, _)
RECURSIVE StringifyEntries(_, _)

StringifyItems(items, i) ==
    IF i > Len(items) THEN <<>>
    ELSE (IF i > 1 THEN <<Tok(",")>> ELSE <<>>)
         \o JSON_stringify(items[i]) \o StringifyItems(items, i + 1)

StringifyEntries(entries, i) ==
    IF i > Len(entries) THEN <<>>
    ELSE (IF i > 1 THEN <<Tok(",")>> ELSE <<>>)
         \o <<TStr(entries[i].key), Tok(":")>>
         \o JSON_stringify(entries[i].value) \o StringifyEntries(entries, i + 1)

JSON_stringify(v) ==
    CASE v.t = "null" -> <<Tok("null")>>
      [] v.t = "bool" -> <<Tok(IF v.b THEN "true" ELSE "false")>>
      [] v.t = "num"  -> <<TNum(v.ip, v.frac)>>
      [] v.t = "str"  -> <<TStr(v.s)>>
      [] v.t = "arr"  -> <<Tok("[")>> \o StringifyItems(v.items, 1) \o <<Tok("]")>>
      [] v.t = "obj"  -> <<Tok("{")>> \o StringifyEntries(v.entries, 1) \o <<Tok("}")>>

\* The keys of generated objects: "a" and "as" give the same item class name.
Keys == {<<"a">>, <<"a", "s">>}

\* The values with one node.
Leaves == {JNull, JBool(TRUE), JNum(5, 0), JNum(5, 5), JStr(<<"x">>),
           JArr(<<>>), JObj(<<>>)}

\* The sequences of distinct keys.
KeySeqs ==
    UNION {{ks \in [1..n -> Keys] : \A i, j \in 1..n : i # j => ks[i] # ks[j]}
           : n \in 1..Cardinality(Keys)}

\* The entries that give the values of s the keys ks.
RECURSIVE ZipEntries(_, _)
ZipEntries(ks, s) ==
    IF s = <<>> THEN <<>>
    ELSE <<[key |-> Head(ks), value |-> Head(s)]>> \o ZipEntries(Tail(ks), Tail(s))

\* The sequences <<v>> \o s of a value v with j nodes and a sequence s with m - j.
SeqsHeadedBy(vals, seqs, m, j) ==
    {<<v>> \o s : v \in vals[j], s \in (IF j = m THEN {<<>>} ELSE seqs[m - j])}

RECURSIVE SeqsOfSize(_, _, _, _)
SeqsOfSize(vals, seqs, m, j) ==
    IF j = 0 THEN {}
    ELSE SeqsHeadedBy(vals, seqs, m, j) \cup SeqsOfSize(vals, seqs, m, j - 1)

\* vals[k], for k up to n: the values with k nodes; seqs[m], for m below n: the
\* non-empty sequences of values with m nodes in all.
RECURSIVE ValueTable(_)
ValueTable(n) ==
    IF n = 1 THEN [vals |-> <<Leaves>>, seqs |-> <<>>]
    ELSE LET prev  == ValueTable(n - 1)
             seqsM == SeqsOfSize(prev.vals, prev.seqs, n - 1, n - 1)
             valsN == {JArr(s) : s \in seqsM}
                      \cup {JObj(ZipEntries(q[1], q[2])) :
                               q \in {r \in KeySeqs \X seqsM : Len(r[1]) = Len(r[2])}}
         IN [vals |-> Append(prev.vals, valsN), seqs |-> Append(prev.seqs, seqsM)]

RECURSIVE ValuesUpTo(_, _)
ValuesUpTo(table, n) ==
    IF n = 0 THEN {} ELSE table.vals[n] \cup ValuesUpTo(table, n - 1)

\* The documents of at most MaxNodes nodes.
JsonValues == ValuesUpTo(ValueTable(MaxNodes), MaxNodes)

\* The texts and class names of the generator's check.
GenInputs == {JSON_stringify(v) : v \in JsonValues}
GenNames  == {S_MyModel, <<"U", "s", "e", "r">>}

\* The texts a user types in the component's check: empty, blank, not JSON
\* (`{invalid`), and JSON texts with white space, a repeated key, an index key, a
\* null root, and an array that starts with null.
TextCatalog ==
    { <<>>,
      <<WS>>,
      <<Tok("{"), Tok("word")>>,
      <<Tok("{"), TStr(<<"a">>), Tok(":"), TNum(5, 0), Tok(",")>>,
      <<WS, Tok("{"), TStr(<<"a">>), Tok(":"), WS, TNum(5, 0), Tok("}"), WS>>,
      <<Tok("{"), TStr(<<"a">>), Tok(":"), TNum(5, 0), Tok(","),
        TStr(<<"0">>), Tok(":"), Tok("true"), Tok(","),
        TStr(<<"a">>), Tok(":"), TNum(5, 5), Tok("}")>>,
      JSON_stringify(JObj(<<[key |-> <<"a", "s">>,
                             value |-> JArr(<<JObj(<<[key |-> <<"a">>,
                                                      value |-> JStr(<<"x">>)]>>)>>)]>>)),
      JSON_stringify(JObj(<<[key |-> <<"a">>, value |-> JArr(<<JNull>>)]>>)),
      <<Tok("null")>> }

NameCatalog == {S_MyModel, <<"A">>, <<>>}

---------------------------------------------------------------------------
(* Specifications.                                                         *)

Init ==
    /\ jsonInput = <<>>
    /\ className = S_MyModel
    /\ dartOutput = <<>>
    /\ isConverting = FALSE
    /\ toast = NoToast
    /\ toastCount = 0
    /\ copyPending = 0

Next ==
    \/ \E text \in TextCatalog : setJsonInput(text)
    \/ \E name \in NameCatalog : setClassName(name)
    \/ ConvertButton
    \/ CopyButton
    \/ \E resolved \in BOOLEAN : clipboardSettled(resolved)
    \/ clearAll

\* The component under its user's actions.
Spec == Init /\ [][Next]_vars

\* The generator on every bounded JSON document: the text is typed, the class
\* name chosen, and Convert is pressed once.
GenInit ==
    /\ jsonInput \in GenInputs
    /\ className \in GenNames
    /\ dartOutput = <<>>
    /\ isConverting = FALSE
    /\ toast = NoToast
    /\ toastCount = 0
    /\ copyPending = 0

GenNext == toastCount = 0 /\ ConvertButton

GenSpec == GenInit /\ [][GenNext]_vars

---------------------------------------------------------------------------
(* Reading the generated text and the parsed document.                     *)

\* The document that was converted.
Document == JSON_parse(jsonInput).value

\* The conversion succeeded and dartOutput holds its text.
Converted == toast = ToastSuccess

\* The conversion was attempted on text that is valid JSON.
ConvertedValidJson == toastCount > 0 /\ ~JSON_parse(jsonInput).threw

\* The document's root is an object.
ObjectRoot == Document.t = "obj"

\* The lines that open a class definition, and the lines of its body.
ClassIndexes(text) == {i \in 1..Len(text) : text[i].k = "class"}

EndOfClass(text, i) ==
    CHOOSE j \in (i + 1)..Len(text) :
        /\ text[j].k = "end"
        /\ \A m \in (i + 1)..(j - 1) : text[m].k # "end"

BodyOfClass(text, i) == SubSeq(text, i + 1, EndOfClass(text, i) - 1)

LinesOfKind(lines, kind) == SelectSeq(lines, LAMBDA l : l.k = kind)

KeysOfLines(lines) == [p \in 1..Len(lines) |-> lines[p].key]

FieldsOfClass(text, i) == LinesOfKind(BodyOfClass(text, i), "field")
ParamsOfClass(text, i) == LinesOfKind(BodyOfClass(text, i), "this")
FromsOfClass(text, i)  == LinesOfKind(BodyOfClass(text, i), "from")
TosOfClass(text, i)    == LinesOfKind(BodyOfClass(text, i), "to")

\* The declared type T, read as text.
ScalarTypeNames == {S_dynamic, S_String, S_int, S_double, S_bool}

IsListType(T) ==
    /\ Len(T) > Len(S_ListOpen)
    /\ SubSeq(T, 1, Len(S_ListOpen)) = S_ListOpen
    /\ T[Len(T)] = ">"

ListElementType(T) == SubSeq(T, Len(S_ListOpen) + 1, Len(T) - 1)

IsClassType(T) == T \notin ScalarTypeNames /\ ~IsListType(T)

IsListOfClassType(T) == IsListType(T) /\ IsClassType(ListElementType(T))

\* The class name C of a declared type C or List<C>.
ReferencedClass(T) == IF IsListType(T) THEN ListElementType(T) ELSE T

\* The entries of a value, none when Object.entries throws.
EntriesOf(v) == ObjectEntries(v).entries

\* The value of the field named key.
FieldValue(v, key) ==
    LET es == EntriesOf(v) IN
    es[CHOOSE p \in 1..Len(es) : es[p].key = key].value

\* The value a class is built from when the field holds x: x, or the first
\* element of the array x.
ClassSource(x) == IF isArray(x) /\ Len(x.items) > 0 THEN x.items[1] ELSE x

\* The value a class with this path was built from.
RECURSIVE ValueAt(_, _)
ValueAt(v, path) ==
    IF path = <<>> THEN v
    ELSE ValueAt(ClassSource(FieldValue(v, Head(path))), Tail(path))

\* The field value that made the generator emit the class with this path.
FieldAt(v, path) ==
    FieldValue(ValueAt(v, SubSeq(path, 1, Len(path) - 1)), path[Len(path)])

IsStrictPrefix(p, q) == Len(p) < Len(q) /\ SubSeq(q, 1, Len(p)) = p

\* A field value that has a class of its own, as the specification states it:
\* an object, or an array whose first element is an object.
IsObjectValue(v) == v.t = "obj"

IsArrayOfObjects(v) == v.t = "arr" /\ Len(v.items) > 0 /\ v.items[1].t = "obj"

HasOwnClass(v) == IsObjectValue(v) \/ IsArrayOfObjects(v)

---------------------------------------------------------------------------
(* The properties.  Those of the generator are checked under GenSpec, those   *)
(* of the handlers under Spec.                                              *)

\* C1: generation is total: converting a text that is valid JSON never ends in
\* the error path; the only failure of the pipeline is the parse.
C1_GenerationIsTotal == ConvertedValidJson => Converted

\* C3, as stated: for every field of every emitted class whose declared type is
\* a class name C or List<C>, the text holds exactly one class definition named
\* C, and it comes before the class that declares the field.  (Stated for
\* documents whose root is an object.)
C3_ExactlyOneDefinedEarlier ==
    (Converted /\ ObjectRoot) =>
        \A i \in ClassIndexes(dartOutput) :
            \A p \in 1..Len(FieldsOfClass(dartOutput, i)) :
                LET T == FieldsOfClass(dartOutput, i)[p].type
                    C == ReferencedClass(T)
                IN (IsClassType(T) \/ IsListOfClassType(T)) =>
                      /\ Cardinality({j \in ClassIndexes(dartOutput) :
                                         dartOutput[j].name = C}) = 1
                      /\ \E j \in ClassIndexes(dartOutput) :
                            j < i /\ dartOutput[j].name = C

\* C3, amended: for every field of every emitted class whose declared type is a
\* class name C or List<C>, at least one class definition named C comes before
\* the class that declares the field.
C3_DefinedEarlier ==
    Converted =>
        \A i \in ClassIndexes(dartOutput) :
            \A p \in 1..Len(FieldsOfClass(dartOutput, i)) :
                LET T == FieldsOfClass(dartOutput, i)[p].type
                    C == ReferencedClass(T)
                IN (IsClassType(T) \/ IsListOfClassType(T)) =>
                      \E j \in ClassIndexes(dartOutput) :
                          j < i /\ dartOutput[j].name = C

\* A text in which a field refers to a class name that two definitions carry.
C3_Witness ==
    /\ Converted
    /\ \E i \in ClassIndexes(dartOutput) :
           \E p \in 1..Len(FieldsOfClass(dartOutput, i)) :
               LET T == FieldsOfClass(dartOutput, i)[p].type IN
               /\ IsClassType(T) \/ IsListOfClassType(T)
               /\ Cardinality({j \in ClassIndexes(dartOutput) :
                                  dartOutput[j].name = ReferencedClass(T)}) > 1

\* C4: children before parents at every depth: the class of a value comes after
\* the classes of all the values nested in it, every nested object or array of
\* objects has its class, and the root class is the last class of the text.
C4_ChildrenBeforeParent ==
    Converted =>
        LET CI == ClassIndexes(dartOutput) IN
        /\ \E r \in CI :
              /\ \A j \in CI : j <= r
              /\ dartOutput[r].path = <<>>
              /\ dartOutput[r].name = className
        /\ \A i, j \in CI :
              IsStrictPrefix(dartOutput[i].path, dartOutput[j].path) => j < i
        /\ \A i \in CI :
              LET es == EntriesOf(ValueAt(Document, dartOutput[i].path)) IN
              \A p \in 1..Len(es) :
                  HasOwnClass(es[p].value) =>
                      \E j \in CI :
                          dartOutput[j].path = dartOutput[i].path \o <<es[p].key>>

\* A text with a class two levels below the root.
C4_Witness ==
    /\ Converted
    /\ \E i \in ClassIndexes(dartOutput) : Len(dartOutput[i].path) >= 2

\* The rule table of C5.
RECURSIVE TypeRule(_, _)
TypeRule(value, key) ==
    CASE value.t = "null" -> S_dynamic
      [] value.t = "str"  -> S_String
      [] value.t = "num"  -> IF value.frac = 0 THEN S_int ELSE S_double
      [] value.t = "bool" -> S_bool
      [] value.t = "obj"  -> capitalizeFirst(key)
      [] value.t = "arr"  ->
            IF value.items = <<>> THEN S_ListOpen \o S_dynamic \o S_ListClose
            ELSE IF value.items[1].t = "obj"
            THEN S_ListOpen \o capitalizeFirst(replaceTrailingS(key)) \o S_ListClose
            ELSE S_ListOpen \o TypeRule(value.items[1], key) \o S_ListClose

\* C5: the declared type of every field is the one the rule table gives for the
\* field's value and key; an array of arrays recurses on its first element.
\* (Stated for documents whose root is an object.)
C5_TypeTable ==
    (Converted /\ ObjectRoot) =>
        \A i \in ClassIndexes(dartOutput) :
            LET es == EntriesOf(ValueAt(Document, dartOutput[i].path))
                fs == FieldsOfClass(dartOutput, i)
            IN /\ Len(fs) = Len(es)
               /\ \A p \in 1..Len(fs) : fs[p].type = TypeRule(es[p].value, es[p].key)

AllDistinct(keys) == \A p, q \in 1..Len(keys) : p # q => keys[p] # keys[q]

\* C6: in every emitted class the field declarations, the constructor
\* parameters, the fromJson assignments and the toJson keys each list the keys
\* of the value the class was built from, once each and in its key order.
C6_KeyOrder ==
    Converted =>
        \A i \in ClassIndexes(dartOutput) :
            LET keys == KeysOfLines(EntriesOf(ValueAt(Document, dartOutput[i].path))) IN
            /\ AllDistinct(keys)
            /\ KeysOfLines(FieldsOfClass(dartOutput, i)) = keys
            /\ KeysOfLines(ParamsOfClass(dartOutput, i)) = keys
            /\ KeysOfLines(FromsOfClass(dartOutput, i)) = keys
            /\ KeysOfLines(TosOfClass(dartOutput, i)) = keys

\* A class whose keys are not in alphabetical order: "as" before "a".
C6_Witness ==
    /\ Converted
    /\ \E i \in ClassIndexes(dartOutput) :
           KeysOfLines(TosOfClass(dartOutput, i)) = <<<<"a", "s">>, <<"a">>>>

\* C7: a class is emitted for a field only when its value is an object or an
\* array whose first element is an object (not null, not an array).
\* (Stated for documents whose root is an object.)
C7_DescentOnlyIntoObjects ==
    (Converted /\ ObjectRoot) =>
        \A i \in ClassIndexes(dartOutput) :
            dartOutput[i].path # <<>> =>
                HasOwnClass(FieldAt(Document, dartOutput[i].path))

\* C8: the declared type, the fromJson entry and the toJson entry of every field
\* agree: the object form exactly for a declared class C, the list form exactly
\* for a declared List<C>, the raw form otherwise and in both; the class named
\* in fromJson is the declared one and the one emitted for the field.
C8_RoutinesAgree ==
    Converted =>
        \A i \in ClassIndexes(dartOutput) :
            LET fs == FieldsOfClass(dartOutput, i)
                fr == FromsOfClass(dartOutput, i)
                to == TosOfClass(dartOutput, i)
            IN /\ Len(fr) = Len(fs)
               /\ Len(to) = Len(fs)
               /\ \A p \in 1..Len(fs) :
                     LET T == fs[p].type IN
                     /\ fr[p].key = fs[p].key
                     /\ to[p].key = fs[p].key
                     /\ fr[p].form = "object" <=> IsClassType(T)
                     /\ fr[p].form = "list" <=> IsListOfClassType(T)
                     /\ fr[p].form \in {"object", "list", "raw"}
                     /\ to[p].form = fr[p].form
                     /\ fr[p].form # "raw" =>
                           /\ fr[p].cls = ReferencedClass(T)
                           /\ \E j \in ClassIndexes(dartOutput) :
                                 /\ dartOutput[j].path = dartOutput[i].path \o <<fs[p].key>>
                                 /\ dartOutput[j].name = fr[p].cls

\* A class with a list field "as" whose entries name the singular class A.
C8_Witness ==
    /\ Converted
    /\ \E i \in ClassIndexes(dartOutput) :
           \E p \in 1..Len(FromsOfClass(dartOutput, i)) :
               /\ FromsOfClass(dartOutput, i)[p].form = "list"
               /\ FromsOfClass(dartOutput, i)[p].key = <<"a", "s">>
               /\ FromsOfClass(dartOutput, i)[p].cls = <<"A">>

\* The fields, anywhere in the traversed tree, whose value is an object or an
\* array of objects.
RECURSIVE CountOwnClasses(_)
RECURSIVE CountOwnClassesFrom(_, _)

CountOwnClassesFrom(es, p) ==
    IF p > Len(es) THEN 0
    ELSE (IF HasOwnClass(es[p].value)
          THEN 1 + CountOwnClasses(ClassSource(es[p].value))
          ELSE 0)
         + CountOwnClassesFrom(es, p + 1)

CountOwnClasses(v) == CountOwnClassesFrom(EntriesOf(v), 1)

\* C9: the text holds one class definition for the root and one for every field
\* of the traversed tree whose value is an object or an array of objects, with
\* no merging of equal names.  (Stated for documents whose root is an object.)
C9_ClassCount ==
    (Converted /\ ObjectRoot) =>
        Cardinality(ClassIndexes(dartOutput)) = 1 + CountOwnClasses(Document)

\* A step of convertJsonToDart: each call makes one toast() call, with one of
\* its three messages.
ConvertStep ==
    /\ toastCount' = toastCount + 1
    /\ toast' \in {ToastEnterJson, ToastSuccess, ToastInvalid}

\* C2: output is all or nothing: a call of convertJsonToDart on text that is not
\* valid JSON reports an error and leaves dartOutput as it was, and a call that
\* writes dartOutput writes the complete return value of generateDartClass.
C2_AllOrNothing ==
    [][ConvertStep =>
          /\ JSON_parse(jsonInput).threw =>
                (toast'.variant = "destructive" /\ dartOutput' = dartOutput)
          /\ dartOutput' # dartOutput =>
                /\ ~JSON_parse(jsonInput).threw
                /\ ~generateDartClass(Document, className).threw
                /\ dartOutput' = generateDartClass(Document, className).text]_vars

\* Text that is not JSON was converted while an earlier output was shown.
C2_Witness ==
    /\ toast = ToastInvalid
    /\ JSON_parse(jsonInput).threw
    /\ dartOutput # <<>>

\* C10: the loading flag never stays set: after every call of convertJsonToDart
\* isConverting is false, and a call on empty or blank text changes none of
\* jsonInput, className, dartOutput and isConverting.
C10_FlagIsReset ==
    [][ConvertStep =>
          /\ isConverting' = FALSE
          /\ trim(jsonInput) = <<>> =>
                UNCHANGED <<jsonInput, className, dartOutput, isConverting>>]_vars

\* Blank text was converted while an earlier output was shown.
C10_Witness ==
    /\ toast = ToastEnterJson
    /\ jsonInput # <<>>
    /\ trim(jsonInput) = <<>>
    /\ dartOutput # <<>>
    /\ isConverting = FALSE

============================================================================
